---- MODULE Spec2Model ----
(***************************************************************************)
(* A model of the PrayTimes engine of prayer_times.py: the class-level     *)
(* registries (methods, settings, offset), the per-instance attributes,    *)
(* the interface functions (constructor, set_method, adjust, tune,         *)
(* get_times) and the computation pipeline behind get_times.               *)
(*                                                                         *)
(* Numbers are exact rationals <<n, d>> (d > 0, lowest terms); the float   *)
(* NaN is <<0, 0>>.  Texts are sequences of one-character strings.         *)
(* A Python value held in settings is a record [isstr, text]: a str        *)
(* carries its characters, a number carries the characters str() gives.    *)
(* The trigonometric solver (sun_position and the degree-based math) is    *)
(* tabulated: SolarAngles, SolarNoons and SolarAsrs hold what the source   *)
(* returns, rounded to the minute, for the dates, coordinates and angles   *)
(* of the model.  The pipeline is computed on the exact numbers; the       *)
(* formatter (get_formatted_time, with fix) is computed on a binary float  *)
(* grid of Precision significant bits, where each operation rounds.        *)
(***************************************************************************)
EXTENDS Integers, Sequences, FiniteSets, TLC

\* ------------------------------------------------------------------------
\* Exact arithmetic standing for Python floats
\* ------------------------------------------------------------------------

Abs(x) == IF x < 0 THEN -x ELSE x

RECURSIVE GCD(_, _)
GCD(a, b) == IF b = 0 THEN a ELSE GCD(b, a % b)

\* the float nan (line 236: float('nan'))
NaN == <<0, 0>>

isnan(x) == x[2] = 0

Norm(n, d) ==
    LET g == GCD(Abs(n), d)
    IN  IF g = 0 THEN <<0, 1>> ELSE <<n \div g, d \div g>>

R(n) == <<n, 1>>

Frac(n, d) == Norm(n, d)

Add(x, y) ==
    IF isnan(x) \/ isnan(y) THEN NaN
    ELSE LET g == GCD(x[2], y[2])
         IN  Norm(x[1] * (y[2] \div g) + y[1] * (x[2] \div g), (x[2] \div g) * y[2])

Neg(x) == IF isnan(x) THEN NaN ELSE <<-x[1], x[2]>>

Sub(x, y) == Add(x, Neg(y))

Mul(x, y) ==
    IF isnan(x) \/ isnan(y) THEN NaN
    ELSE LET g1 == GCD(Abs(x[1]), y[2])
             g2 == GCD(Abs(y[1]), x[2])
             a1 == IF g1 = 0 THEN 1 ELSE g1
             a2 == IF g2 = 0 THEN 1 ELSE g2
         IN  Norm((x[1] \div a1) * (y[1] \div a2), (x[2] \div a2) * (y[2] \div a1))

\* x / y for a non-zero finite y (every divisor of the source is a constant)
Div(x, y) ==
    IF isnan(x) \/ isnan(y) THEN NaN
    ELSE IF y[1] < 0 THEN Mul(x, <<-y[2], -y[1]>>) ELSE Mul(x, <<y[2], y[1]>>)

\* x < y on floats: any comparison with nan is False
Less(x, y) ==
    /\ ~isnan(x)
    /\ ~isnan(y)
    /\ x[1] * y[2] < y[1] * x[2]

Greater(x, y) == Less(y, x)

Leq(x, y) ==
    /\ ~isnan(x)
    /\ ~isnan(y)
    /\ x[1] * y[2] <= y[1] * x[2]

\* math.floor of a finite number (TLA+ \div rounds towards minus infinity)
Floor(x) == x[1] \div x[2]

\* F applied to the value of x (x is evaluated once, as a Python local is)
With(x, F(_)) == CHOOSE r \in {F(v) : v \in {x}} : TRUE

\* ------------------------------------------------------------------------
\* The float grid.  A Python float carries a fixed number of significant
\* bits and every operation on floats returns the float nearest to the exact
\* result (ties to the even neighbour).  The formatter's arithmetic (lines
\* 213-216 and fix, 439-444) is modelled on that grid with Precision
\* significant bits, so that what a sum or a difference loses is lost in the
\* model as it is in the source.
\* ------------------------------------------------------------------------

Precision == 18

\* the position of the leading bit of n >= 1
Log2(n) == CHOOSE e \in 0..30 : n \div (2^e) = 1

\* x * 2^j and x / 2^j (j >= 0), kept in lowest terms
Shift(x, j) ==
    LET g == GCD(x[2], 2^j)
    IN  <<x[1] * ((2^j) \div g), x[2] \div g>>

Unshift(x, j) ==
    LET g == GCD(Abs(x[1]), 2^j)
    IN  <<x[1] \div g, x[2] * ((2^j) \div g)>>

\* the binary places q + r/d may be moved by at once: as many as bring q
\* into [2^(Precision-1), 2^Precision), and no more than r * 2^j allows
Places(q, d) ==
    LET need == IF q = 0 THEN Precision - 1 ELSE Precision - 1 - Log2(q)
        room == 30 - Log2(d)
    IN  IF need < room THEN need ELSE room

\* The binary expansion of a number q + r/d (0 <= r < d) by long division:
\* <<q', r', d', k'>> with q' + r'/d' = (q + r/d) * 2^(k'-k) and q' in
\* [2^(Precision-1), 2^Precision).  A number at or above 2^Precision is
\* halved; a denominator that is a multiple of 2^8 gives eight places.
RECURSIVE Scale(_, _, _, _)
Scale(q, r, d, k) ==
    IF q >= 2^Precision
    THEN With(<<q \div 2, (q % 2) * d + r, 2 * d, k - 1>>,
              LAMBDA x : Scale(x[1], x[2], x[3], x[4]))
    ELSE IF q >= 2^(Precision - 1) THEN <<q, r, d, k>>
    ELSE IF q < 2^(Precision - 9) /\ d % 256 = 0
    THEN With(<<256 * q + (r \div (d \div 256)), r % (d \div 256), d \div 256, k + 8>>,
              LAMBDA x : Scale(x[1], x[2], x[3], x[4]))
    ELSE With(Places(q, d), LAMBDA j :
         With(<<(2^j) * q + (((2^j) * r) \div d), ((2^j) * r) % d, d, k + j>>,
              LAMBDA x : Scale(x[1], x[2], x[3], x[4])))

\* Scale of the magnitude of a finite non-zero x
Expand(x) == Scale(Abs(x[1]) \div x[2], Abs(x[1]) % x[2], x[2], 0)

\* the integer nearest to q + r/d, a tie going to the even one
RoundHalfEven(q, r, d) ==
    IF 2 * r < d THEN q
    ELSE IF 2 * r > d THEN q + 1
    ELSE IF q % 2 = 0 THEN q ELSE q + 1

\* x / 2^k, fifteen binary places at a time
RECURSIVE Unscale(_, _)
Unscale(x, k) ==
    IF k > 15 THEN Unscale(Unshift(x, 15), k - 15)
    ELSE IF k >= 0 THEN Unshift(x, k)
    ELSE IF k < -15 THEN Unscale(Shift(x, 15), k + 15)
    ELSE Shift(x, -k)

\* the float nearest to x
fl(x) ==
    IF isnan(x) \/ x[1] = 0 THEN x
    ELSE With(Expand(x), LAMBDA s :
         With(Unscale(R(RoundHalfEven(s[1], s[2], s[3])), s[4]), LAMBDA u :
         IF x[1] < 0 THEN Neg(u) ELSE u))

\* math.floor of the float nearest to x (x finite); a float below 1 in
\* magnitude is not built, its floor is 0 or -1 by its sign
floor_fl(x) ==
    IF x[1] = 0 THEN 0
    ELSE With(Expand(x), LAMBDA s :
         IF s[4] > Precision THEN (IF x[1] < 0 THEN -1 ELSE 0)
         ELSE With(Unscale(R(RoundHalfEven(s[1], s[2], s[3])), s[4]), LAMBDA u :
              IF x[1] < 0 THEN Floor(Neg(u)) ELSE Floor(u)))

\* the float 0.5 / 60 of line 213
half_minute == fl(Div(Frac(1, 2), R(60)))

\* ------------------------------------------------------------------------
\* Texts
\* ------------------------------------------------------------------------

Digits == <<"0", "1", "2", "3", "4", "5", "6", "7", "8", "9">>

DigitChars == {Digits[i] : i \in 1..10}

DigitVal(c) == (CHOOSE i \in 1..10 : Digits[i] = c) - 1

DigitChar(n) == Digits[n + 1]

\* the characters the pattern [^0-9.+-] of eval does not split on
NumChars == DigitChars \cup {".", "+", "-"}

\* a str value and a numeric value (with the text str() gives for it)
Str(chars) == [isstr |-> TRUE, text |-> chars]

Num(chars) == [isstr |-> FALSE, text |-> chars]

RECURSIVE Pow10(_)
Pow10(k) == IF k = 0 THEN 1 ELSE 10 * Pow10(k - 1)

\* the value of a run of decimal digits
RECURSIVE DigitsVal(_)
DigitsVal(s) ==
    IF s = <<>> THEN 0 ELSE 10 * DigitsVal(SubSeq(s, 1, Len(s) - 1)) + DigitVal(s[Len(s)])

\* st.find(sub) > -1
Contains(s, sub) ==
    \E i \in 1..(Len(s) - Len(sub) + 1) : SubSeq(s, i, i + Len(sub) - 1) = sub

\* ------------------------------------------------------------------------
\* Misc functions (lines 394-444)
\* ------------------------------------------------------------------------

\* re.split('[^0-9.+-]', str(st), 1)[0]: the leading run of NumChars
LeadingToken(s) ==
    LET stops == {i \in 1..Len(s) : s[i] \notin NumChars}
        first == IF stops = {} THEN Len(s) + 1
                 ELSE CHOOSE i \in stops : \A j \in stops : i <= j
    IN  SubSeq(s, 1, first - 1)

\* what Python's float() accepts among texts over NumChars:
\* [+-]? (digit+ ('.' digit*)? | '.' digit+)
Unsigned(tok) ==
    IF tok # <<>> /\ tok[1] \in {"+", "-"} THEN SubSeq(tok, 2, Len(tok)) ELSE tok

FloatAccepts(tok) ==
    LET b == Unsigned(tok)
        dots == {i \in 1..Len(b) : b[i] = "."}
    IN  /\ \A i \in 1..Len(b) : b[i] \in DigitChars \cup {"."}
        /\ Cardinality(dots) <= 1
        /\ Len(b) - Cardinality(dots) >= 1

\* float(tok) for an accepted tok
FloatValue(tok) ==
    LET b == Unsigned(tok)
        dots == {i \in 1..Len(b) : b[i] = "."}
        p == IF dots = {} THEN Len(b) + 1 ELSE CHOOSE i \in dots : TRUE
        pre == SubSeq(b, 1, p - 1)
        post == SubSeq(b, p + 1, Len(b))
        mag == Frac(DigitsVal(pre) * Pow10(Len(post)) + DigitsVal(post), Pow10(Len(post)))
    IN  IF tok[1] = "-" THEN Neg(mag) ELSE mag

\* eval (lines 399-401): [exc |-> TRUE] stands for float() raising ValueError
eval(st) ==
    LET val == LeadingToken(st.text)
    IN  IF val = <<>> THEN [exc |-> FALSE, val |-> R(0)]
        ELSE IF FloatAccepts(val) THEN [exc |-> FALSE, val |-> FloatValue(val)]
        ELSE [exc |-> TRUE, val |-> NaN]

\* is_min (lines 404-405)
is_min(arg) == arg.isstr /\ Contains(arg.text, <<"m", "i", "n">>)

\* fix (lines 439-444)
fix(a, mode) ==
    IF isnan(a) THEN a
    ELSE LET b == Sub(a, Mul(mode, R(Floor(Div(a, mode)))))
         IN  IF Less(b, R(0)) THEN Add(b, mode) ELSE b

\* fixhour (lines 436-437)
fixhour(hour) == fix(hour, R(24))

\* fix (lines 439-444) on the float grid: the quotient, the difference and
\* the sum are each the nearest float; mode * floor(...) is an int product,
\* turned into a float by the subtraction
fix_float(a, mode) ==
    IF isnan(a) THEN a
    ELSE With(fl(Sub(a, fl(Mul(mode, R(floor_fl(Div(a, mode))))))), LAMBDA b :
         IF Less(b, R(0)) THEN fl(Add(b, mode)) ELSE b)

\* fixhour (lines 436-437) on the float grid
fixhour_float(hour) == fix_float(hour, R(24))

\* time_diff (lines 395-396)
time_diff(time1, time2) == fixhour(Sub(time2, time1))

\* ------------------------------------------------------------------------
\* Constants of the class (lines 73-142)
\* ------------------------------------------------------------------------

time_names ==
    {"imsak", "fajr", "sunrise", "dhuhr", "asr", "sunset", "maghrib", "isha", "midnight"}

\* the 'params' of each entry of methods as the class statement leaves them
methods0 ==
    [MWL     |-> [fajr |-> Num(<<"1", "8">>), isha |-> Num(<<"1", "7">>)],
     ISNA    |-> [fajr |-> Num(<<"1", "5">>), isha |-> Num(<<"1", "5">>)],
     Egypt   |-> [fajr |-> Num(<<"1", "9", ".", "5">>), isha |-> Num(<<"1", "7", ".", "5">>)],
     Makkah  |-> [fajr |-> Num(<<"1", "8", ".", "5">>), isha |-> Str(<<"9", "0", " ", "m", "i", "n">>)],
     Karachi |-> [fajr |-> Num(<<"1", "8">>), isha |-> Num(<<"1", "8">>)],
     Tehran  |-> [fajr |-> Num(<<"1", "7", ".", "7">>), isha |-> Num(<<"1", "4">>),
                  maghrib |-> Num(<<"4", ".", "5">>),
                  midnight |-> Str(<<"J", "a", "f", "a", "r", "i">>)],
     Jafari  |-> [fajr |-> Num(<<"1", "6">>), isha |-> Num(<<"1", "4">>),
                  maghrib |-> Num(<<"4">>),
                  midnight |-> Str(<<"J", "a", "f", "a", "r", "i">>)]]

default_params ==
    [maghrib |-> Str(<<"0", " ", "m", "i", "n">>),
     midnight |-> Str(<<"S", "t", "a", "n", "d", "a", "r", "d">>)]

settings0 ==
    [imsak |-> Str(<<"1", "0", " ", "m", "i", "n">>),
     dhuhr |-> Str(<<"0", " ", "m", "i", "n">>),
     asr |-> Str(<<"S", "t", "a", "n", "d", "a", "r", "d">>),
     highLats |-> Str(<<"N", "i", "g", "h", "t", "M", "i", "d", "d", "l", "e">>)]

invalid_time == <<"-", "-", "-", "-", "-">>

time_suffixes == <<<<"a", "m">>, <<"p", "m">>>>

\* dict.update
Update(d, u) ==
    [k \in DOMAIN d \cup DOMAIN u |-> IF k \in DOMAIN u THEN u[k] ELSE d[k]]

\* ------------------------------------------------------------------------
\* Calculation functions (lines 223-269)
\* ------------------------------------------------------------------------

\* What sun_angle_time, mid_day and asr_time return (rounded to the minute) on
\* the source, for each (jDate, lat) of the model.  An angle equation with no
\* solution (math.acos raising ValueError, caught at line 235) is NaN.
\* rows <<jDate, lat, angle, time, direction, sun_angle_time>>
SolarAngles ==
    <<<<<<44200831, 18>>, <<43, 1>>, <<-4, 1>>, <<5, 24>>, "ccw", <<91, 12>>>>,
      <<<<44200831, 18>>, <<43, 1>>, <<-4, 1>>, <<3, 4>>, "None", <<203, 12>>>>,
      <<<<44200831, 18>>, <<43, 1>>, <<0, 1>>, <<5, 24>>, "ccw", <<431, 60>>>>,
      <<<<44200831, 18>>, <<43, 1>>, <<0, 1>>, <<3, 4>>, "None", <<173, 10>>>>,
      <<<<44200831, 18>>, <<43, 1>>, <<4, 1>>, <<5, 24>>, "ccw", <<34, 5>>>>,
      <<<<44200831, 18>>, <<43, 1>>, <<4, 1>>, <<3, 4>>, "None", <<1061, 60>>>>,
      <<<<44200831, 18>>, <<43, 1>>, <<9, 2>>, <<5, 24>>, "ccw", <<27, 4>>>>,
      <<<<44200831, 18>>, <<43, 1>>, <<9, 2>>, <<3, 4>>, "None", <<266, 15>>>>,
      <<<<44200831, 18>>, <<43, 1>>, <<5, 1>>, <<5, 24>>, "ccw", <<67, 10>>>>,
      <<<<44200831, 18>>, <<43, 1>>, <<5, 1>>, <<3, 4>>, "None", <<1067, 60>>>>,
      <<<<44200831, 18>>, <<43, 1>>, <<10, 1>>, <<5, 24>>, "ccw", <<187, 30>>>>,
      <<<<44200831, 18>>, <<43, 1>>, <<10, 1>>, <<3, 4>>, "None", <<73, 4>>>>,
      <<<<44200831, 18>>, <<43, 1>>, <<14, 1>>, <<5, 24>>, "ccw", <<88, 15>>>>,
      <<<<44200831, 18>>, <<43, 1>>, <<14, 1>>, <<3, 4>>, "None", <<1117, 60>>>>,
      <<<<44200831, 18>>, <<43, 1>>, <<15, 1>>, <<5, 24>>, "ccw", <<173, 30>>>>,
      <<<<44200831, 18>>, <<43, 1>>, <<15, 1>>, <<3, 4>>, "None", <<1123, 60>>>>,
      <<<<44200831, 18>>, <<43, 1>>, <<16, 1>>, <<5, 24>>, "ccw", <<341, 60>>>>,
      <<<<44200831, 18>>, <<43, 1>>, <<16, 1>>, <<3, 4>>, "None", <<94, 5>>>>,
      <<<<44200831, 18>>, <<43, 1>>, <<17, 1>>, <<5, 24>>, "ccw", <<67, 12>>>>,
      <<<<44200831, 18>>, <<43, 1>>, <<17, 1>>, <<3, 4>>, "None", <<189, 10>>>>,
      <<<<44200831, 18>>, <<43, 1>>, <<35, 2>>, <<5, 24>>, "ccw", <<111, 20>>>>,
      <<<<44200831, 18>>, <<43, 1>>, <<35, 2>>, <<3, 4>>, "None", <<284, 15>>>>,
      <<<<44200831, 18>>, <<43, 1>>, <<177, 10>>, <<5, 24>>, "ccw", <<83, 15>>>>,
      <<<<44200831, 18>>, <<43, 1>>, <<177, 10>>, <<3, 4>>, "None", <<379, 20>>>>,
      <<<<44200831, 18>>, <<43, 1>>, <<18, 1>>, <<5, 24>>, "ccw", <<11, 2>>>>,
      <<<<44200831, 18>>, <<43, 1>>, <<18, 1>>, <<3, 4>>, "None", <<1139, 60>>>>,
      <<<<44200831, 18>>, <<43, 1>>, <<37, 2>>, <<5, 24>>, "ccw", <<109, 20>>>>,
      <<<<44200831, 18>>, <<43, 1>>, <<37, 2>>, <<3, 4>>, "None", <<571, 30>>>>,
      <<<<44200831, 18>>, <<43, 1>>, <<39, 2>>, <<5, 24>>, "ccw", <<161, 30>>>>,
      <<<<44200831, 18>>, <<43, 1>>, <<39, 2>>, <<3, 4>>, "None", <<1147, 60>>>>,
      <<<<44200831, 18>>, <<43, 1>>, <<90, 1>>, <<5, 24>>, "ccw", NaN>>,
      <<<<44200831, 18>>, <<43, 1>>, <<90, 1>>, <<3, 4>>, "None", NaN>>,
      <<<<44200831, 18>>, <<43, 1>>, <<833, 1000>>, <<1, 4>>, "ccw", <<71, 10>>>>,
      <<<<44200831, 18>>, <<43, 1>>, <<833, 1000>>, <<3, 4>>, "None", <<1043, 60>>>>,
      <<<<4911467, 2>>, <<50, 1>>, <<-4, 1>>, <<5, 24>>, "ccw", <<67, 15>>>>,
      <<<<4911467, 2>>, <<50, 1>>, <<-4, 1>>, <<3, 4>>, "None", <<98, 5>>>>,
      <<<<4911467, 2>>, <<50, 1>>, <<0, 1>>, <<5, 24>>, "ccw", <<79, 20>>>>,
      <<<<4911467, 2>>, <<50, 1>>, <<0, 1>>, <<3, 4>>, "None", <<201, 10>>>>,
      <<<<4911467, 2>>, <<50, 1>>, <<4, 1>>, <<5, 24>>, "ccw", <<17, 5>>>>,
      <<<<4911467, 2>>, <<50, 1>>, <<4, 1>>, <<3, 4>>, "None", <<413, 20>>>>,
      <<<<4911467, 2>>, <<50, 1>>, <<9, 2>>, <<5, 24>>, "ccw", <<10, 3>>>>,
      <<<<4911467, 2>>, <<50, 1>>, <<9, 2>>, <<3, 4>>, "None", <<311, 15>>>>,
      <<<<4911467, 2>>, <<50, 1>>, <<5, 1>>, <<5, 24>>, "ccw", <<13, 4>>>>,
      <<<<4911467, 2>>, <<50, 1>>, <<5, 1>>, <<3, 4>>, "None", <<104, 5>>>>,
      <<<<4911467, 2>>, <<50, 1>>, <<10, 1>>, <<5, 24>>, "ccw", <<29, 12>>>>,
      <<<<4911467, 2>>, <<50, 1>>, <<10, 1>>, <<3, 4>>, "None", <<433, 20>>>>,
      <<<<4911467, 2>>, <<50, 1>>, <<14, 1>>, <<5, 24>>, "ccw", <<3, 2>>>>,
      <<<<4911467, 2>>, <<50, 1>>, <<14, 1>>, <<3, 4>>, "None", <<677, 30>>>>,
      <<<<4911467, 2>>, <<50, 1>>, <<15, 1>>, <<5, 24>>, "ccw", <<7, 6>>>>,
      <<<<4911467, 2>>, <<50, 1>>, <<15, 1>>, <<3, 4>>, "None", <<1373, 60>>>>,
      <<<<4911467, 2>>, <<50, 1>>, <<16, 1>>, <<5, 24>>, "ccw", <<43, 60>>>>,
      <<<<4911467, 2>>, <<50, 1>>, <<16, 1>>, <<3, 4>>, "None", <<467, 20>>>>,
      <<<<4911467, 2>>, <<50, 1>>, <<17, 1>>, <<5, 24>>, "ccw", NaN>>,
      <<<<4911467, 2>>, <<50, 1>>, <<17, 1>>, <<3, 4>>, "None", NaN>>,
      <<<<4911467, 2>>, <<50, 1>>, <<35, 2>>, <<5, 24>>, "ccw", NaN>>,
      <<<<4911467, 2>>, <<50, 1>>, <<35, 2>>, <<3, 4>>, "None", NaN>>,
      <<<<4911467, 2>>, <<50, 1>>, <<177, 10>>, <<5, 24>>, "ccw", NaN>>,
      <<<<4911467, 2>>, <<50, 1>>, <<177, 10>>, <<3, 4>>, "None", NaN>>,
      <<<<4911467, 2>>, <<50, 1>>, <<18, 1>>, <<5, 24>>, "ccw", NaN>>,
      <<<<4911467, 2>>, <<50, 1>>, <<18, 1>>, <<3, 4>>, "None", NaN>>,
      <<<<4911467, 2>>, <<50, 1>>, <<37, 2>>, <<5, 24>>, "ccw", NaN>>,
      <<<<4911467, 2>>, <<50, 1>>, <<37, 2>>, <<3, 4>>, "None", NaN>>,
      <<<<4911467, 2>>, <<50, 1>>, <<39, 2>>, <<5, 24>>, "ccw", NaN>>,
      <<<<4911467, 2>>, <<50, 1>>, <<39, 2>>, <<3, 4>>, "None", NaN>>,
      <<<<4911467, 2>>, <<50, 1>>, <<90, 1>>, <<5, 24>>, "ccw", NaN>>,
      <<<<4911467, 2>>, <<50, 1>>, <<90, 1>>, <<3, 4>>, "None", NaN>>,
      <<<<4911467, 2>>, <<50, 1>>, <<59, 50>>, <<1, 4>>, "ccw", <<19, 5>>>>,
      <<<<4911467, 2>>, <<50, 1>>, <<59, 50>>, <<3, 4>>, "None", <<304, 15>>>>,
      <<<<22103248, 9>>, <<80, 1>>, <<-4, 1>>, <<5, 24>>, "ccw", NaN>>,
      <<<<22103248, 9>>, <<80, 1>>, <<-4, 1>>, <<3, 4>>, "None", NaN>>,
      <<<<22103248, 9>>, <<80, 1>>, <<0, 1>>, <<5, 24>>, "ccw", NaN>>,
      <<<<22103248, 9>>, <<80, 1>>, <<0, 1>>, <<3, 4>>, "None", NaN>>,
      <<<<22103248, 9>>, <<80, 1>>, <<4, 1>>, <<5, 24>>, "ccw", NaN>>,
      <<<<22103248, 9>>, <<80, 1>>, <<4, 1>>, <<3, 4>>, "None", NaN>>,
      <<<<22103248, 9>>, <<80, 1>>, <<9, 2>>, <<5, 24>>, "ccw", NaN>>,
      <<<<22103248, 9>>, <<80, 1>>, <<9, 2>>, <<3, 4>>, "None", NaN>>,
      <<<<22103248, 9>>, <<80, 1>>, <<5, 1>>, <<5, 24>>, "ccw", NaN>>,
      <<<<22103248, 9>>, <<80, 1>>, <<5, 1>>, <<3, 4>>, "None", NaN>>,
      <<<<22103248, 9>>, <<80, 1>>, <<10, 1>>, <<5, 24>>, "ccw", NaN>>,
      <<<<22103248, 9>>, <<80, 1>>, <<10, 1>>, <<3, 4>>, "None", NaN>>,
      <<<<22103248, 9>>, <<80, 1>>, <<14, 1>>, <<5, 24>>, "ccw", <<319, 30>>>>,
      <<<<22103248, 9>>, <<80, 1>>, <<14, 1>>, <<3, 4>>, "None", <<133, 10>>>>,
      <<<<22103248, 9>>, <<80, 1>>, <<15, 1>>, <<5, 24>>, "ccw", <<146, 15>>>>,
      <<<<22103248, 9>>, <<80, 1>>, <<15, 1>>, <<3, 4>>, "None", <<71, 5>>>>,
      <<<<22103248, 9>>, <<80, 1>>, <<16, 1>>, <<5, 24>>, "ccw", <<109, 12>>>>,
      <<<<22103248, 9>>, <<80, 1>>, <<16, 1>>, <<3, 4>>, "None", <<297, 20>>>>,
      <<<<22103248, 9>>, <<80, 1>>, <<17, 1>>, <<5, 24>>, "ccw", <<128, 15>>>>,
      <<<<22103248, 9>>, <<80, 1>>, <<17, 1>>, <<3, 4>>, "None", <<77, 5>>>>,
      <<<<22103248, 9>>, <<80, 1>>, <<35, 2>>, <<5, 24>>, "ccw", <<497, 60>>>>,
      <<<<22103248, 9>>, <<80, 1>>, <<35, 2>>, <<3, 4>>, "None", <<313, 20>>>>,
      <<<<22103248, 9>>, <<80, 1>>, <<177, 10>>, <<5, 24>>, "ccw", <<491, 60>>>>,
      <<<<22103248, 9>>, <<80, 1>>, <<177, 10>>, <<3, 4>>, "None", <<63, 4>>>>,
      <<<<22103248, 9>>, <<80, 1>>, <<18, 1>>, <<5, 24>>, "ccw", <<161, 20>>>>,
      <<<<22103248, 9>>, <<80, 1>>, <<18, 1>>, <<3, 4>>, "None", <<953, 60>>>>,
      <<<<22103248, 9>>, <<80, 1>>, <<37, 2>>, <<5, 24>>, "ccw", <<469, 60>>>>,
      <<<<22103248, 9>>, <<80, 1>>, <<37, 2>>, <<3, 4>>, "None", <<967, 60>>>>,
      <<<<22103248, 9>>, <<80, 1>>, <<39, 2>>, <<5, 24>>, "ccw", <<443, 60>>>>,
      <<<<22103248, 9>>, <<80, 1>>, <<39, 2>>, <<3, 4>>, "None", <<331, 20>>>>,
      <<<<22103248, 9>>, <<80, 1>>, <<90, 1>>, <<5, 24>>, "ccw", NaN>>,
      <<<<22103248, 9>>, <<80, 1>>, <<90, 1>>, <<3, 4>>, "None", NaN>>,
      <<<<22103248, 9>>, <<80, 1>>, <<833, 1000>>, <<1, 4>>, "ccw", NaN>>,
      <<<<22103248, 9>>, <<80, 1>>, <<833, 1000>>, <<3, 4>>, "None", NaN>>,
      <<<<88406405, 36>>, <<60, 1>>, <<-4, 1>>, <<5, 24>>, "ccw", <<43, 12>>>>,
      <<<<88406405, 36>>, <<60, 1>>, <<-4, 1>>, <<3, 4>>, "None", <<1229, 60>>>>,
      <<<<88406405, 36>>, <<60, 1>>, <<0, 1>>, <<5, 24>>, "ccw", <<167, 60>>>>,
      <<<<88406405, 36>>, <<60, 1>>, <<0, 1>>, <<3, 4>>, "None", <<319, 15>>>>,
      <<<<88406405, 36>>, <<60, 1>>, <<4, 1>>, <<5, 24>>, "ccw", <<103, 60>>>>,
      <<<<88406405, 36>>, <<60, 1>>, <<4, 1>>, <<3, 4>>, "None", <<67, 3>>>>,
      <<<<88406405, 36>>, <<60, 1>>, <<9, 2>>, <<5, 24>>, "ccw", <<31, 20>>>>,
      <<<<88406405, 36>>, <<60, 1>>, <<9, 2>>, <<3, 4>>, "None", <<1351, 60>>>>,
      <<<<88406405, 36>>, <<60, 1>>, <<5, 1>>, <<5, 24>>, "ccw", <<27, 20>>>>,
      <<<<88406405, 36>>, <<60, 1>>, <<5, 1>>, <<3, 4>>, "None", <<1363, 60>>>>,
      <<<<88406405, 36>>, <<60, 1>>, <<10, 1>>, <<5, 24>>, "ccw", NaN>>,
      <<<<88406405, 36>>, <<60, 1>>, <<10, 1>>, <<3, 4>>, "None", NaN>>,
      <<<<88406405, 36>>, <<60, 1>>, <<14, 1>>, <<5, 24>>, "ccw", NaN>>,
      <<<<88406405, 36>>, <<60, 1>>, <<14, 1>>, <<3, 4>>, "None", NaN>>,
      <<<<88406405, 36>>, <<60, 1>>, <<15, 1>>, <<5, 24>>, "ccw", NaN>>,
      <<<<88406405, 36>>, <<60, 1>>, <<15, 1>>, <<3, 4>>, "None", NaN>>,
      <<<<88406405, 36>>, <<60, 1>>, <<16, 1>>, <<5, 24>>, "ccw", NaN>>,
      <<<<88406405, 36>>, <<60, 1>>, <<16, 1>>, <<3, 4>>, "None", NaN>>,
      <<<<88406405, 36>>, <<60, 1>>, <<17, 1>>, <<5, 24>>, "ccw", NaN>>,
      <<<<88406405, 36>>, <<60, 1>>, <<17, 1>>, <<3, 4>>, "None", NaN>>,
      <<<<88406405, 36>>, <<60, 1>>, <<35, 2>>, <<5, 24>>, "ccw", NaN>>,
      <<<<88406405, 36>>, <<60, 1>>, <<35, 2>>, <<3, 4>>, "None", NaN>>,
      <<<<88406405, 36>>, <<60, 1>>, <<177, 10>>, <<5, 24>>, "ccw", NaN>>,
      <<<<88406405, 36>>, <<60, 1>>, <<177, 10>>, <<3, 4>>, "None", NaN>>,
      <<<<88406405, 36>>, <<60, 1>>, <<18, 1>>, <<5, 24>>, "ccw", NaN>>,
      <<<<88406405, 36>>, <<60, 1>>, <<18, 1>>, <<3, 4>>, "None", NaN>>,
      <<<<88406405, 36>>, <<60, 1>>, <<37, 2>>, <<5, 24>>, "ccw", NaN>>,
      <<<<88406405, 36>>, <<60, 1>>, <<37, 2>>, <<3, 4>>, "None", NaN>>,
      <<<<88406405, 36>>, <<60, 1>>, <<39, 2>>, <<5, 24>>, "ccw", NaN>>,
      <<<<88406405, 36>>, <<60, 1>>, <<39, 2>>, <<3, 4>>, "None", NaN>>,
      <<<<88406405, 36>>, <<60, 1>>, <<90, 1>>, <<5, 24>>, "ccw", NaN>>,
      <<<<88406405, 36>>, <<60, 1>>, <<90, 1>>, <<3, 4>>, "None", NaN>>,
      <<<<88406405, 36>>, <<60, 1>>, <<833, 1000>>, <<1, 4>>, "ccw", <<13, 5>>>>,
      <<<<88406405, 36>>, <<60, 1>>, <<833, 1000>>, <<3, 4>>, "None", <<322, 15>>>>>>

\* rows <<jDate, lat, time, mid_day>>
SolarNoons ==
    <<<<<<44200831, 18>>, <<43, 1>>, <<1, 2>>, <<367, 30>>>>,
      <<<<4911467, 2>>, <<50, 1>>, <<1, 2>>, <<361, 30>>>>,
      <<<<22103248, 9>>, <<80, 1>>, <<1, 2>>, <<359, 30>>>>,
      <<<<88406405, 36>>, <<60, 1>>, <<1, 2>>, <<361, 30>>>>>>

\* rows <<jDate, lat, factor, time, asr_time>>
SolarAsrs ==
    <<<<<<44200831, 18>>, <<43, 1>>, <<1, 1>>, <<13, 24>>, <<449, 30>>>>,
      <<<<44200831, 18>>, <<43, 1>>, <<2, 1>>, <<13, 24>>, <<47, 3>>>>,
      <<<<4911467, 2>>, <<50, 1>>, <<1, 1>>, <<13, 24>>, <<327, 20>>>>,
      <<<<4911467, 2>>, <<50, 1>>, <<2, 1>>, <<13, 24>>, <<88, 5>>>>,
      <<<<22103248, 9>>, <<80, 1>>, <<1, 1>>, <<13, 24>>, <<78, 5>>>>,
      <<<<22103248, 9>>, <<80, 1>>, <<2, 1>>, <<13, 24>>, <<371, 20>>>>,
      <<<<88406405, 36>>, <<60, 1>>, <<1, 1>>, <<13, 24>>, <<251, 15>>>>,
      <<<<88406405, 36>>, <<60, 1>>, <<2, 1>>, <<13, 24>>, <<361, 20>>>>>>

\* the last column of the row of tbl that starts with key
Lookup(tbl, key) ==
    LET row == tbl[CHOOSE i \in DOMAIN tbl : SubSeq(tbl[i], 1, Len(key)) = key]
    IN  row[Len(row)]

\* mid_day (lines 224-226)
mid_day(self, time) == Lookup(SolarNoons, <<self.jDate, self.lat, time>>)

\* sun_angle_time (lines 229-236)
sun_angle_time(self, angle, time, direction) ==
    Lookup(SolarAngles, <<self.jDate, self.lat, angle, time, direction>>)

\* asr_time (lines 239-242)
asr_time(self, factor, time) == Lookup(SolarAsrs, <<self.jDate, self.lat, factor, time>>)

\* julian (lines 263-269)
julian(year, month, day) ==
    LET y == IF month <= 2 THEN year - 1 ELSE year
        m == IF month <= 2 THEN month + 12 ELSE month
        A == y \div 100
        B == 2 - A + (A \div 4)
    IN  Sub(R(Floor(Mul(Frac(36525, 100), R(y + 4716)))
              + Floor(Mul(Frac(306001, 10000), R(m + 1))) + day + B),
            Frac(15245, 10))

\* math.sqrt on the perfect squares the model's elevations are
Sqrt(n) == CHOOSE r \in 0..n : r * r = n

\* rise_set_angle (lines 339-342)
rise_set_angle(elevation) == Add(Frac(833, 1000), Mul(Frac(347, 10000), R(Sqrt(elevation))))

\* asr_factor (lines 334-336)
asr_factor(asrParam) ==
    IF asrParam = Str(<<"S", "t", "a", "n", "d", "a", "r", "d">>) THEN R(1)
    ELSE IF asrParam = Str(<<"H", "a", "n", "a", "f", "i">>) THEN R(2)
    ELSE eval(asrParam).val

\* ------------------------------------------------------------------------
\* Compute prayer times (lines 274-390)
\* ------------------------------------------------------------------------

\* the evaluations of eval that one get_times makes (lines 278-285, 336,
\* 361-364, 322-329): float() raising in any of them aborts the call
EvalRaises(params) ==
    \/ \E n \in {"imsak", "fajr", "maghrib", "isha", "dhuhr"} : eval(params[n]).exc
    \/ /\ params.asr \notin {Str(<<"S", "t", "a", "n", "d", "a", "r", "d">>),
                             Str(<<"H", "a", "n", "a", "f", "i">>)}
       /\ eval(params.asr).exc

\* day_portion (lines 387-390)
day_portion(times) == [n \in DOMAIN times |-> Div(times[n], R(24))]

\* compute_prayer_times (lines 274-290)
compute_prayer_times(self, params, times0) ==
    LET times == day_portion(times0)
    IN  [imsak   |-> sun_angle_time(self, eval(params.imsak).val, times.imsak, "ccw"),
         fajr    |-> sun_angle_time(self, eval(params.fajr).val, times.fajr, "ccw"),
         sunrise |-> sun_angle_time(self, rise_set_angle(self.elv), times.sunrise, "ccw"),
         dhuhr   |-> mid_day(self, times.dhuhr),
         asr     |-> asr_time(self, asr_factor(params.asr), times.asr),
         sunset  |-> sun_angle_time(self, rise_set_angle(self.elv), times.sunset, "None"),
         maghrib |-> sun_angle_time(self, eval(params.maghrib).val, times.maghrib, "None"),
         isha    |-> sun_angle_time(self, eval(params.isha).val, times.isha, "None")]

\* night_portion (lines 376-384)
night_portion(params, angle, night) ==
    LET method == params.highLats
        portion == IF method = Str(<<"O", "n", "e", "S", "e", "v", "e", "n", "t", "h">>)
                     THEN Frac(1, 7)
                   ELSE IF method = Str(<<"A", "n", "g", "l", "e", "B", "a", "s", "e", "d">>)
                     THEN Mul(Frac(1, 60), angle)
                   ELSE Frac(1, 2)
    IN  Mul(portion, night)

\* the high-latitude clamp with the portion added whatever the direction
adjust_HL_time_unsigned(params, time, base, angle, night, direction) ==
    LET portion == night_portion(params, angle, night)
        diff == IF direction = "ccw" THEN time_diff(time, base) ELSE time_diff(base, time)
    IN  IF isnan(time) \/ Greater(diff, portion) THEN Add(base, portion) ELSE time

\* adjust_HL_time (lines 368-373)
adjust_HL_time(params, time, base, angle, night, direction) ==
    LET portion == night_portion(params, angle, night)
        diff == IF direction = "ccw" THEN time_diff(time, base) ELSE time_diff(base, time)
    IN  IF isnan(time) \/ Greater(diff, portion)
        THEN Add(base, IF direction = "ccw" THEN Neg(portion) ELSE portion)
        ELSE time

\* adjust_high_lats (lines 357-365)
adjust_high_lats(params, times) ==
    LET nightTime == time_diff(times.sunset, times.sunrise)
    IN  [times EXCEPT
           !.imsak = adjust_HL_time(params, times.imsak, times.sunrise,
                                    eval(params.imsak).val, nightTime, "ccw"),
           !.fajr = adjust_HL_time(params, times.fajr, times.sunrise,
                                   eval(params.fajr).val, nightTime, "ccw"),
           !.isha = adjust_HL_time(params, times.isha, times.sunset,
                                   eval(params.isha).val, nightTime, "None"),
           !.maghrib = adjust_HL_time(params, times.maghrib, times.sunset,
                                      eval(params.maghrib).val, nightTime, "None")]

\* adjust_times, lines 314-316: the shift to the time zone
tz_adjust(self, times) ==
    LET tzAdjust == Sub(self.timeZone, Div(self.lng, R(15)))
    IN  [n \in DOMAIN times |-> Add(times[n], tzAdjust)]

\* adjust_times, lines 318-319: the conditional high-latitude adjustment
high_lats_step(params, times) ==
    IF params.highLats # Str(<<"N", "o", "n", "e">>) THEN adjust_high_lats(params, times)
    ELSE times

\* the minute settings with isha taken from the maghrib that came in, not from
\* the maghrib just overridden
minute_offsets_unchained(params, times) ==
    [times EXCEPT
       !.imsak = IF is_min(params.imsak)
                 THEN Sub(times.fajr, Div(eval(params.imsak).val, R(60)))
                 ELSE times.imsak,
       !.maghrib = IF is_min(params.maghrib)
                   THEN Sub(times.sunset, Div(eval(params.maghrib).val, R(60)))
                   ELSE times.maghrib,
       !.isha = IF is_min(params.isha)
                THEN Sub(times.maghrib, Div(eval(params.isha).val, R(60)))
                ELSE times.isha,
       !.dhuhr = Add(times.dhuhr, Div(eval(params.dhuhr).val, R(60)))]

\* adjust_times, lines 321-329: the settings given in minutes
minute_offsets(params, times) ==
    LET t1 == IF is_min(params.imsak)
              THEN [times EXCEPT !.imsak = Sub(times.fajr, Div(eval(params.imsak).val, R(60)))]
              ELSE times
        t2 == IF is_min(params.maghrib)
              THEN [t1 EXCEPT !.maghrib = Sub(t1.sunset, Div(eval(params.maghrib).val, R(60)))]
              ELSE t1
        t3 == IF is_min(params.isha)
              THEN [t2 EXCEPT !.isha = Sub(t2.maghrib, Div(eval(params.isha).val, R(60)))]
              ELSE t2
    IN  [t3 EXCEPT !.dhuhr = Add(t3.dhuhr, Div(eval(params.dhuhr).val, R(60)))]

\* adjust_times (lines 312-331)
adjust_times(self, params, times) ==
    With(tz_adjust(self, times), LAMBDA shifted :
    With(high_lats_step(params, shifted), LAMBDA hl :
    minute_offsets(params, hl)))

\* the midnight time with the "Jafari" rule ignored
midnight_time_standard_only(params, times) ==
    Add(times.sunset, Div(time_diff(times.sunset, times.sunrise), R(2)))

\* compute_times, lines 302-306: the midnight time
midnight_time(params, times) ==
    IF params.midnight = Str(<<"J", "a", "f", "a", "r", "i">>)
    THEN Add(times.sunset, Div(time_diff(times.sunset, times.fajr), R(2)))
    ELSE Add(times.sunset, Div(time_diff(times.sunset, times.sunrise), R(2)))

add_midnight(params, times) ==
    [n \in DOMAIN times \cup {"midnight"} |->
        IF n = "midnight" THEN midnight_time(params, times) ELSE times[n]]

\* tune_times (lines 345-348)
tune_times(offs, times) ==
    [n \in DOMAIN times |-> Add(times[n], Div(R(offs[n]), R(60)))]

\* ------------------------------------------------------------------------
\* Formatting (lines 204-219, 351-354)
\* ------------------------------------------------------------------------

\* "%d" % n for n >= 0
RECURSIVE Dec(_)
Dec(n) == IF n < 10 THEN <<DigitChar(n)>> ELSE Dec(n \div 10) \o <<DigitChar(n % 10)>>

\* "%02d" % n for n >= 0
Dec02(n) == IF n < 10 THEN <<"0">> \o Dec(n) ELSE Dec(n)

\* a returned value: a str, or (format 'Float') the number itself
StrOut(chars) == [t |-> "str", v |-> chars]

FloatOut(x) == [t |-> "float", v |-> x]

\* the formatter with the 'Float' test ahead of the nan test
get_formatted_time_float_first(time, format) ==
    IF format = "Float" THEN FloatOut(time)
    ELSE IF isnan(time) THEN StrOut(invalid_time)
    ELSE With(fixhour_float(fl(Add(fl(time), half_minute))), LAMBDA t :
         With(Floor(t), LAMBDA hours :
         With(Floor(fl(Mul(fl(Sub(t, R(hours))), R(60)))), LAMBDA minutes :
         LET suffix == IF format = "12h"
                       THEN time_suffixes[IF hours < 12 THEN 1 ELSE 2]
                       ELSE <<>>
             formattedTime == IF format = "24h"
                              THEN Dec02(hours) \o <<":">> \o Dec02(minutes)
                              ELSE Dec(((hours + 11) % 12) + 1) \o <<":">> \o Dec02(minutes)
         IN  StrOut(formattedTime \o suffix))))

\* get_formatted_time (lines 204-219) with suffixes=None; time is a float
\* and lines 213-216 are float operations
get_formatted_time(time, format) ==
    IF isnan(time) THEN StrOut(invalid_time)
    ELSE IF format = "Float" THEN FloatOut(time)
    ELSE With(fixhour_float(fl(Add(fl(time), half_minute))), LAMBDA t :
         With(Floor(t), LAMBDA hours :
         With(Floor(fl(Mul(fl(Sub(t, R(hours))), R(60)))), LAMBDA minutes :
         LET suffix == IF format = "12h"
                       THEN time_suffixes[IF hours < 12 THEN 1 ELSE 2]
                       ELSE <<>>
             formattedTime == IF format = "24h"
                              THEN Dec02(hours) \o <<":">> \o Dec02(minutes)
                              ELSE Dec(((hours + 11) % 12) + 1) \o <<":">> \o Dec02(minutes)
         IN  StrOut(formattedTime \o suffix))))

\* modify_formats (lines 351-354)
modify_formats(times, format) ==
    [n \in DOMAIN times |-> get_formatted_time(times[n], format)]

\* ------------------------------------------------------------------------
\* compute_times (lines 293-309)
\* ------------------------------------------------------------------------

num_iterations == 1

seed_times ==
    [imsak |-> R(5), fajr |-> R(5), sunrise |-> R(6), dhuhr |-> R(12),
     asr |-> R(13), sunset |-> R(18), maghrib |-> R(18), isha |-> R(18)]

\* the main iterations (lines 299-300)
RECURSIVE iterate(_, _, _, _)
iterate(k, self, params, times) ==
    IF k = 0 THEN times
    ELSE iterate(k - 1, self, params, compute_prayer_times(self, params, times))

\* compute_times: the value of the local `times` after each step, and the
\* returned dict in .out
compute_times(self, params, offs, format) ==
    With(iterate(num_iterations, self, params, seed_times), LAMBDA raw :
    With(tz_adjust(self, raw), LAMBDA shifted :
    With(high_lats_step(params, shifted), LAMBDA hl :
    With(adjust_times(self, params, raw), LAMBDA adj :
    With(add_midnight(params, adj), LAMBDA mid :
    With(tune_times(offs, mid), LAMBDA tuned :
        [raw |-> raw, shifted |-> shifted, hl |-> hl, adj |-> adj, mid |-> mid,
         tuned |-> tuned, out |-> modify_formats(tuned, format)]))))))

\* ------------------------------------------------------------------------
\* Inputs of the model
\* ------------------------------------------------------------------------

\* the number of interface calls made after the first engine is constructed
MaxOps == 3

\* the longest text handed to eval directly
MaxTextLen == 3

\* two engines over the one class
Inst == {"A", "B"}

\* the engines asked for times
Callers == {"A"}

\* method identifiers handed to the constructor and to set_method
\* ("Nowhere" is in no catalog)
ConstructInputs == {"ISNA", "Makkah", "Tehran", "Nowhere"}

SetMethodInputs == {"MWL", "Nowhere"}

\* dicts handed to adjust
AdjustInputs ==
    {[highLats |-> Str(<<"N", "o", "n", "e">>)],
     [highLats |-> Str(<<"A", "n", "g", "l", "e", "B", "a", "s", "e", "d">>)],
     [highLats |-> Str(<<"O", "n", "e", "S", "e", "v", "e", "n", "t", "h">>)],
     [imsak |-> Num(<<"1", "0">>), maghrib |-> Str(<<"5", " ", "m", "i", "n">>),
      dhuhr |-> Str(<<"5", " ", "m", "i", "n">>)],
     [imsak |-> Str(<<"-", " ", "m", "i", "n">>)],
     [fajr |-> Num(<<"-", "4">>),
      highLats |-> Str(<<"A", "n", "g", "l", "e", "B", "a", "s", "e", "d">>)]}

\* dicts of minutes handed to tune, or written into the dict get_offsets returns
TuneInputs == {[midnight |-> 7], [sunset |-> 30, fajr |-> -20]}

\* get_times arguments: date, coords (elevation optional), timezone, dst
Calls ==
    {[date |-> <<2011, 2, 9>>, coords |-> <<43, -80>>, timezone |-> -5, dst |-> 0],
     [date |-> <<2011, 6, 21>>, coords |-> <<50, 0, 100>>, timezone |-> 0, dst |-> 1],
     [date |-> <<2011, 12, 21>>, coords |-> <<80, 20>>, timezone |-> 1, dst |-> 0]}

\* format=None (the default of get_times)
NoFormat == "<None>"

Formats == {NoFormat, "12h", "Float"}

\* the characters of the texts handed to eval directly
Alphabet == {"5", ".", "+", "-", " ", "m"}

RECURSIVE Texts(_)
Texts(k) ==
    IF k = 0 THEN {<<>>}
    ELSE LET shorter == Texts(k - 1)
         IN  shorter \cup {Append(t, c) : t \in {u \in shorter : Len(u) = k - 1}, c \in Alphabet}

\* ------------------------------------------------------------------------
\* State
\* ------------------------------------------------------------------------

VARIABLES
    methods,      \* class attribute: method name -> its 'params' dict (lines 87-118)
    settings,     \* class attribute settings, the one dict every engine uses (130-135)
    offset,       \* class attribute offset, the one dict every engine uses (142)
    alive,        \* the engines constructed so far
    calc_method,  \* per engine: self.calc_method (154, 168)
    time_format,  \* per engine: self.time_format (137, 195)
    geo,          \* per engine: <<>> or <<[lat, lng, elv, timeZone, jDate]>> (190-200)
    ret,          \* the last call: its operation, engine, argument and outcome
    ref,          \* <<>> or the first get_times call made with format omitted
    probe,        \* the last direct call of eval: its text and outcome
    nops          \* calls made so far

vars == <<methods, settings, offset, alive, calc_method, time_format, geo, ret, ref, probe, nops>>

\* the merge with its test inverted: a default replaces a value the method
\* gives and is not added where the method gives none
merge_defaults_inverted(ms) ==
    [m \in DOMAIN ms |->
        [n \in DOMAIN ms[m] |->
            IF n \in DOMAIN default_params THEN default_params[n] ELSE ms[m][n]]]

\* __init__, lines 148-151: default_params merged into every method
merge_defaults(ms) ==
    [m \in DOMAIN ms |->
        [n \in DOMAIN ms[m] \cup DOMAIN default_params |->
            IF n \in DOMAIN ms[m] THEN ms[m][n] ELSE default_params[n]]]

\* __init__, line 154
select_method(ms, method) == IF method \in DOMAIN ms THEN method ELSE "ISNA"

\* __init__, lines 160-161
zero_offsets(offs) == [n \in DOMAIN offs \cup time_names |-> 0]

Outcome(op, i, arg, exc, res) == [op |-> op, inst |-> i, arg |-> arg, exc |-> exc, res |-> res]

\* the class statement followed by the construction of engine "A"
Init ==
    \E method \in ConstructInputs :
        LET ms == merge_defaults(methods0)
            cm == select_method(ms, method)
        IN  /\ methods = ms
            /\ settings = Update(settings0, ms[cm])
            /\ offset = zero_offsets(<<>>)
            /\ alive = {"A"}
            /\ calc_method = [i \in Inst |-> IF i = "A" THEN cm ELSE "ISNA"]
            /\ time_format = [i \in Inst |-> "24h"]
            /\ geo = [i \in Inst |-> <<>>]
            /\ ret = Outcome("__init__", "A", method, "none", <<>>)
            /\ ref = <<>>
            /\ probe = [st |-> <<>>, r |-> eval(Str(<<>>))]
            /\ nops = 0

\* ------------------------------------------------------------------------
\* Interface functions (lines 146-201)
\* ------------------------------------------------------------------------

\* __init__ (lines 146-161) of a second engine
Construct(i, method) ==
    /\ nops < MaxOps
    /\ i \notin alive
    /\ LET ms == merge_defaults(methods)
           cm == select_method(ms, method)
       IN  /\ methods' = ms
           /\ calc_method' = [calc_method EXCEPT ![i] = cm]
           /\ settings' = Update(settings, ms[cm])
    /\ offset' = zero_offsets(offset)
    /\ alive' = alive \cup {i}
    /\ ret' = Outcome("__init__", i, method, "none", <<>>)
    /\ nops' = nops + 1
    /\ UNCHANGED <<time_format, geo, ref, probe>>

\* set_method (lines 165-168): for a method of the catalog, line 167 reads the
\* attribute params of a dict and raises AttributeError before anything is set
SetMethod(i, method) ==
    /\ nops < MaxOps
    /\ i \in alive
    /\ ret' = Outcome("set_method", i, method,
                      IF method \in DOMAIN methods THEN "AttributeError" ELSE "none", <<>>)
    /\ nops' = nops + 1
    /\ UNCHANGED <<methods, settings, offset, alive, calc_method, time_format, geo, ref, probe>>

\* adjust (lines 170-171)
Adjust(i, params) ==
    /\ nops < MaxOps
    /\ i \in alive
    /\ settings' = Update(settings, params)
    /\ ret' = Outcome("adjust", i, params, "none", <<>>)
    /\ nops' = nops + 1
    /\ UNCHANGED <<methods, offset, alive, calc_method, time_format, geo, ref, probe>>

\* tune (lines 173-174): self.offsets is no attribute (the dict is self.offset),
\* so line 174 raises AttributeError
Tune(i, timeOffsets) ==
    /\ nops < MaxOps
    /\ i \in alive
    /\ ret' = Outcome("tune", i, timeOffsets, "AttributeError", <<>>)
    /\ nops' = nops + 1
    /\ UNCHANGED <<methods, settings, offset, alive, calc_method, time_format, geo, ref, probe>>

\* get_offsets (lines 182-183) returns the dict itself: the caller's
\* get_offsets().update(timeOffsets) writes the offsets
WriteOffsets(i, timeOffsets) ==
    /\ nops < MaxOps
    /\ i \in alive
    /\ offset' = Update(offset, timeOffsets)
    /\ ret' = Outcome("get_offsets", i, timeOffsets, "none", <<>>)
    /\ nops' = nops + 1
    /\ UNCHANGED <<methods, settings, alive, calc_method, time_format, geo, ref, probe>>

\* get_times, lines 190-200: the attributes set before compute_times
set_geo(call) ==
    LET lng == R(call.coords[2])
    IN  [lat |-> R(call.coords[1]),
         lng |-> lng,
         elv |-> IF Len(call.coords) > 2 THEN call.coords[3] ELSE 0,
         timeZone |-> R(call.timezone + (IF call.dst # 0 THEN 1 ELSE 0)),
         jDate |-> Sub(julian(call.date[1], call.date[2], call.date[3]),
                       Div(lng, R(15 * 24)))]

\* get_times (lines 189-201)
GetTimes(i, call, format) ==
    /\ nops < MaxOps
    /\ i \in alive
    /\ LET fmt == IF format # NoFormat THEN format ELSE time_format[i]
           arg == [call |-> call, format |-> format]
       IN  \E self \in {set_geo(call)} :
           \E out \in {IF EvalRaises(settings)
                        THEN Outcome("get_times", i, arg, "ValueError", <<>>)
                        ELSE Outcome("get_times", i, arg, "none",
                                     <<compute_times(self, settings, offset, fmt)>>)} :
               /\ geo' = [geo EXCEPT ![i] = <<self>>]
               /\ time_format' = [time_format EXCEPT ![i] = fmt]
               /\ ret' = out
               /\ ref' = IF ref = <<>> /\ format = NoFormat /\ out.exc = "none"
                         THEN <<[inst |-> i, call |-> call, settings |-> settings,
                                 offset |-> offset, out |-> out.res[1].out]>>
                         ELSE ref
    /\ nops' = nops + 1
    /\ UNCHANGED <<methods, settings, offset, alive, calc_method, probe>>

Next ==
    \/ \E i \in Inst, method \in ConstructInputs : Construct(i, method)
    \/ \E i \in Inst, method \in SetMethodInputs : SetMethod(i, method)
    \/ \E i \in Inst, params \in AdjustInputs : Adjust(i, params)
    \/ \E i \in Inst, timeOffsets \in TuneInputs : Tune(i, timeOffsets)
    \/ \E i \in Inst, timeOffsets \in TuneInputs : WriteOffsets(i, timeOffsets)
    \/ \E i \in Callers, call \in Calls, format \in Formats : GetTimes(i, call, format)

Spec == Init /\ [][Next]_vars

\* ------------------------------------------------------------------------
\* eval called directly on a text
\* ------------------------------------------------------------------------

Eval(st) ==
    /\ probe' = [st |-> st, r |-> eval(Str(st))]
    /\ UNCHANGED <<methods, settings, offset, alive, calc_method, time_format, geo, ret, ref, nops>>

NextEval == \E st \in Texts(MaxTextLen) : Eval(st)

SpecEval == Init /\ [][NextEval]_vars

\* ------------------------------------------------------------------------
\* get_formatted_time called directly on a time
\* ------------------------------------------------------------------------

\* the float next below a float x < 0 (math.nextafter(x, -inf))
Pred(x) == With(Expand(x), LAMBDA s : Sub(x, Unscale(R(1), s[4])))

\* the times passed: nan, times inside and outside [0, 24), the first float
\* at or after 23:59:30, and floats next to -0.5/60
TimeInputs ==
    { NaN, R(0), Frac(15, 2), Frac(47, 4), R(12), Frac(51, 4), Frac(95, 4),
      fl(Frac(223, 30)), fl(Frac(1439, 60)), Frac(3071, 128), R(24),
      Frac(-5, 4), Frac(-61, 2), Frac(99, 2), Frac(-1, 128),
      Neg(half_minute), Pred(Neg(half_minute)), Pred(Pred(Neg(half_minute))) }

FormatInputs == {"24h", "12h", "Float"}

FormatTime(time, format) ==
    /\ probe' = [time |-> time, format |-> format, r |-> get_formatted_time(time, format)]
    /\ UNCHANGED <<methods, settings, offset, alive, calc_method, time_format, geo, ret, ref, nops>>

NextFormat == \E time \in TimeInputs, format \in FormatInputs : FormatTime(time, format)

SpecFormat == Init /\ [][NextFormat]_vars

\* ------------------------------------------------------------------------
\* Properties
\* ------------------------------------------------------------------------

\* the recognized parameter names
ParamNames == {"imsak", "fajr", "isha", "maghrib", "midnight", "dhuhr", "asr", "highLats"}

CatalogNames == {"MWL", "ISNA", "Egypt", "Makkah", "Karachi", "Tehran", "Jafari"}

HighLatsNone == Str(<<"N", "o", "n", "e">>)

AngleBased == Str(<<"A", "n", "g", "l", "e", "B", "a", "s", "e", "d">>)

OneSeventh == Str(<<"O", "n", "e", "S", "e", "v", "e", "n", "t", "h">>)

NightMiddle == Str(<<"N", "i", "g", "h", "t", "M", "i", "d", "d", "l", "e">>)

JafariRule == Str(<<"J", "a", "f", "a", "r", "i">>)

Sentinel == StrOut(invalid_time)

\* the last call was a get_times that returned
GotTimes == ret.op = "get_times" /\ ret.exc = "none"

\* the step is the call of op (the outcome of the call is in ret')
Called(op) == nops' = nops + 1 /\ ret'.op = op

\* C1: set_method(name) never raises; a name of the catalog becomes the active
\* method and its parameters overwrite the Settings entries they name; a name
\* outside the catalog changes neither; a constructor given an unknown name
\* selects "ISNA".
C1_SetMethod ==
    /\ [](ret.op = "__init__" /\ ret.arg \notin DOMAIN methods
            => calc_method[ret.inst] = "ISNA")
    /\ [][Called("set_method") =>
            /\ ret'.exc = "none"
            /\ ret'.arg \in DOMAIN methods =>
                 /\ calc_method'[ret'.inst] = ret'.arg
                 /\ \A n \in DOMAIN methods[ret'.arg] : settings'[n] = methods[ret'.arg][n]
            /\ ret'.arg \notin DOMAIN methods =>
                 /\ calc_method' = calc_method
                 /\ settings' = settings]_vars

\* C2: tune(m) never raises and leaves get_offsets() equal to the offsets
\* before the call overwritten by m; get_times adds offset/60 to each time.
C2_Tune ==
    /\ [](GotTimes =>
            \A n \in time_names :
                ret.res[1].tuned[n] = Add(ret.res[1].mid[n], Div(R(offset[n]), R(60))))
    /\ [][Called("tune") =>
            /\ ret'.exc = "none"
            /\ offset' = Update(offset, ret'.arg)]_vars

\* C3: constructing engine B, or calling adjust, set_method or tune on B,
\* leaves the Settings and Offsets that engine A reads unchanged.
C3_OwnedByInstance ==
    [][(/\ nops' = nops + 1
        /\ ret'.inst = "B"
        /\ ret'.op \in {"__init__", "adjust", "set_method", "tune"})
         => settings' = settings /\ offset' = offset]_vars

\* C4 as stated: every method of the catalog has a value for every recognized
\* parameter name in its merged parameters.
C4_AllNamesInMethods ==
    \A m \in CatalogNames : m \in DOMAIN methods /\ ParamNames \subseteq DOMAIN methods[m]

\* C4 amended: every method of the catalog has a value for fajr, isha, maghrib
\* and midnight in its merged parameters, and Settings has a value for every
\* recognized parameter name.
C4_MergedParams ==
    /\ \A m \in CatalogNames :
           /\ m \in DOMAIN methods
           /\ {"fajr", "isha", "maghrib", "midnight"} \subseteq DOMAIN methods[m]
    /\ ParamNames \subseteq DOMAIN settings

C4_Witness ==
    /\ alive = {"A", "B"}
    /\ ret.op = "__init__"
    /\ methods.MWL.maghrib = default_params.maghrib
    /\ methods.MWL.midnight = default_params.midnight
    /\ methods.Tehran.midnight = JafariRule

\* the sunrise and sunset equations of the last get_times had no solution
PolarCall ==
    /\ GotTimes
    /\ isnan(ret.res[1].raw.sunrise)
    /\ isnan(ret.res[1].raw.sunset)

\* C5 as stated: with no solution for sunrise and sunset, both are returned as
\* the invalid-time sentinel under highLats "None" and as a time (not the
\* sentinel) under NightMiddle, OneSeventh and AngleBased.
C5_PolarFallback ==
    PolarCall =>
        IF settings.highLats = HighLatsNone
        THEN ret.res[1].out.sunrise = Sentinel /\ ret.res[1].out.sunset = Sentinel
        ELSE settings.highLats \in {NightMiddle, OneSeventh, AngleBased} =>
                 ret.res[1].out.sunrise # Sentinel /\ ret.res[1].out.sunset # Sentinel

\* C5 amended: with no solution for sunrise and sunset, both are returned as
\* the invalid-time sentinel whatever the highLats setting and the format.
C5_PolarSentinel ==
    PolarCall => ret.res[1].out.sunrise = Sentinel /\ ret.res[1].out.sunset = Sentinel

C5_Witness ==
    /\ PolarCall
    /\ settings.highLats = AngleBased
    /\ ret.arg.format = "Float"
    /\ ret.res[1].out.sunset = Sentinel

\* C6: eval(st) raises for no text st; it returns the value of the leading
\* numeric token when float() accepts it and 0 otherwise.
C6_EvalTotal ==
    LET val == LeadingToken(probe.st)
    IN  /\ ~probe.r.exc
        /\ probe.r.val = IF val # <<>> /\ FloatAccepts(val) THEN FloatValue(val) ELSE R(0)

\* C7: with Settings and Offsets as they were, a get_times call with format
\* omitted returns what the first such call with the same arguments returned,
\* whatever get_times calls were made in between.
C7_GetTimesStateless ==
    (/\ GotTimes
     /\ ret.arg.format = NoFormat
     /\ ref # <<>>
     /\ ref[1].inst = ret.inst
     /\ ref[1].call = ret.arg.call
     /\ ref[1].settings = settings
     /\ ref[1].offset = offset)
        => ret.res[1].out = ref[1].out

\* m/60 for the number m that eval finds in a setting
MinutesOf(param) == Div(eval(param).val, R(60))

\* C8: in adjust_times every time is first shifted by timeZone - lng/15; then,
\* from the values after the (conditional) high-latitude adjustment, a setting
\* in minutes m gives imsak = fajr - m/60, maghrib = sunset - m/60 and
\* isha = maghrib - m/60 with the maghrib just overridden, dhuhr gets + m/60
\* from its own setting, and every other time keeps its value.
C8_MinuteOffsets ==
    GotTimes =>
        LET tr == ret.res[1]
            self == geo[ret.inst][1]
        IN  /\ \A n \in DOMAIN tr.raw :
                   tr.shifted[n] = Add(tr.raw[n], Sub(self.timeZone, Div(self.lng, R(15))))
            /\ settings.highLats = HighLatsNone => tr.hl = tr.shifted
            /\ tr.adj.imsak = IF is_min(settings.imsak)
                              THEN Sub(tr.hl.fajr, MinutesOf(settings.imsak))
                              ELSE tr.hl.imsak
            /\ tr.adj.maghrib = IF is_min(settings.maghrib)
                                THEN Sub(tr.hl.sunset, MinutesOf(settings.maghrib))
                                ELSE tr.hl.maghrib
            /\ tr.adj.isha = IF is_min(settings.isha)
                             THEN Sub(tr.adj.maghrib, MinutesOf(settings.isha))
                             ELSE tr.hl.isha
            /\ tr.adj.dhuhr = Add(tr.hl.dhuhr, MinutesOf(settings.dhuhr))
            /\ \A n \in {"fajr", "sunrise", "asr", "sunset"} : tr.adj[n] = tr.hl[n]

C8_Witness ==
    /\ GotTimes
    /\ is_min(settings.isha)
    /\ is_min(settings.maghrib)
    /\ ~is_min(settings.imsak)
    /\ eval(settings.maghrib).val # R(0)
    /\ eval(settings.dhuhr).val # R(0)
    /\ ~isnan(ret.res[1].adj.isha)
    /\ ret.res[1].adj.isha # ret.res[1].hl.isha

\* the end of the night that midnight is derived from
NightEnd(tr) == IF settings.midnight = JafariRule THEN tr.adj.fajr ELSE tr.adj.sunrise

\* C9: midnight is sunset + fixhour(fajr - sunset)/2 under the midnight setting
\* "Jafari" and sunset + fixhour(sunrise - sunset)/2 otherwise, from the times
\* adjust_times returns (untuned); the returned midnight is that value plus
\* midnight's own offset/60, formatted, and is the sentinel when sunset or the
\* other end is NaN.
C9_Midnight ==
    GotTimes =>
        LET tr == ret.res[1]
            derived == Add(tr.adj.sunset, Div(fixhour(Sub(NightEnd(tr), tr.adj.sunset)), R(2)))
            returned == Add(derived, Div(R(offset.midnight), R(60)))
        IN  /\ tr.mid.midnight = derived
            /\ \A n \in DOMAIN tr.adj : tr.mid[n] = tr.adj[n]
            /\ tr.tuned.midnight = returned
            /\ tr.out.midnight = get_formatted_time(returned, time_format[ret.inst])
            /\ isnan(tr.adj.sunset) \/ isnan(NightEnd(tr)) => tr.out.midnight = Sentinel

C9_Witness ==
    /\ GotTimes
    /\ settings.midnight = JafariRule
    /\ offset.sunset # 0
    /\ offset.fajr # 0
    /\ ret.res[1].adj.fajr # ret.res[1].adj.sunrise
    /\ ~isnan(ret.res[1].mid.midnight)
    /\ ret.res[1].out.midnight # Sentinel

\* the night portion of C10 for the setting of time n
PortionOf(n, night) ==
    IF settings.highLats = AngleBased THEN Div(Mul(night, eval(settings[n]).val), R(60))
    ELSE IF settings.highLats = OneSeventh THEN Div(night, R(7))
    ELSE Div(night, R(2))

\* the precondition of C10
HighLatsCase ==
    /\ GotTimes
    /\ settings.highLats # HighLatsNone
    /\ ~isnan(ret.res[1].shifted.sunrise)
    /\ ~isnan(ret.res[1].shifted.sunset)
    /\ \A n \in {"imsak", "fajr", "isha", "maghrib"} : Leq(R(0), eval(settings[n]).val)

RoundedMinute(t) == Floor(Add(Mul(t, R(60)), Frac(1, 2))) % 1440

Formatted == "time" \in DOMAIN probe

\* C11: get_formatted_time returns the invalid-time sentinel for nan whatever
\* the format, "Float" included; for a finite time it returns, with format
\* "24h", the zero-padded HH:MM (0 <= HH <= 23, 0 <= MM <= 59) of the time
\* rounded to the nearest minute modulo 24 hours and, with format "12h",
\* H:MM (1 <= H <= 12) of the same minute with the suffix am exactly when
\* HH < 12 and pm otherwise.
C11_FormattedTime ==
    Formatted =>
        LET t == probe.time
            HH == RoundedMinute(t) \div 60
            MM == RoundedMinute(t) % 60
        IN  /\ isnan(t) => probe.r = StrOut(invalid_time)
            /\ ~isnan(t) /\ probe.format = "24h" =>
                   probe.r = StrOut(Dec02(HH) \o <<":">> \o Dec02(MM))
            /\ ~isnan(t) /\ probe.format = "12h" =>
                   probe.r = StrOut(Dec(((HH + 11) % 12) + 1) \o <<":">> \o Dec02(MM)
                                    \o (IF HH < 12 THEN <<"a", "m">> ELSE <<"p", "m">>))

====
